---- MODULE Spec2Model ----
(***************************************************************************)
(* Playback orchestration of discodrome for one guild: the MusicCog        *)
(* commands of src/extensions/music.py acting on the guild's player        *)
(* (queue, current_song), the voice client and the occupancy watchdog.     *)
(* The Player methods play_audio_queue / skip_track and the voice sink's   *)
(* end-of-track callback live in data.py, which is not part of src/; they  *)
(* are modelled from the specification (sections 4.2 and 4.3).             *)
(* The functions of the remote client (src/subsonic.py) are operators on   *)
(* the server's answers; SpecClient applies them on their own, and         *)
(* SpecRandom / SpecSimilar run the player with the autoplay modes that    *)
(* the autoplay command of the source cannot store.                        *)
(***************************************************************************)
EXTENDS Integers, Sequences, FiniteSets, TLC

\* ------------------------------------------------------------------ bounds
MaxObj == 4        \* Song objects created in one run
MaxQueue == 3      \* longest queue explored
MaxUsers == 1      \* users (besides the bot) in the voice channel
MaxWaiting == 2    \* watchdog handlers asleep at the same time
MaxAlbums == 2     \* albums an artist lists

\* ------------------------------------------------------------- data model
\* Python's None, as a record so that it compares with Song records.
None == [obj |-> 0, track |-> "None"]

\* Song.__init__: every parsed Song is a new object; obj is its identity,
\* track the value of its fields (id, title, ...).
Song(n, t) == [obj |-> n, track |-> t]

\* The Song objects parsed from a response listing `batch`, the first one
\* being the n-th object of the run.
Songs(batch, n) == [i \in 1..Len(batch) |-> Song(n + i - 1, batch[i])]

AutoplayModes == {"NONE", "RANDOM", "SIMILAR"}

\* What the server can answer: the songs of the playlist asked for ...
PlaylistResponses == {<<>>, <<"A">>, <<"B", "A">>, <<"A", "B", "C">>}

\* ... the albums of an artist, each with its songs ...
DiscographyResponses ==
    { << <<"A">>, <<"B", "C">> >>, << <<"C", "A">> >>, << <<>>, <<"B">> >>, << >> }

\* ... the songs of a search3 request with songCount=1 ...
SearchResponses == {<<>>, <<"A">>, <<"B">>}

\* A response of the server as the client reads it: the HTTP status, the
\* envelope's status and error code, whether the payload holds its list key
\* ("song", "playlist", "artist", "album") and the entries of that list.
Envelope(http, status, code, has, items) ==
    [http |-> http, status |-> status, code |-> code, has |-> has, items |-> items]

Ok(items) == Envelope(200, "ok", 0, TRUE, items)

\* An ok envelope whose payload is {}: the server leaves out empty lists.
OkEmpty == Envelope(200, "ok", 0, FALSE, <<>>)

Failed(code) == Envelope(200, "failed", code, FALSE, <<>>)

HttpError == Envelope(500, "none", 0, FALSE, <<>>)

\* ... and the answers to getRandomSongs / getSimilarSongs.
RandomResponses ==
    {Ok(<<"B">>), Ok(<<"C", "A">>), Ok(<<>>), OkEmpty, Failed(70), Failed(40), HttpError}

SimilarResponses(t) ==
    {Ok(<<IF t = "None" THEN "A" ELSE t>>), OkEmpty, Failed(70), Failed(40)}

\* A getCoverArt answer whose body is the image, not JSON.
Image == Envelope(200, "none", 0, TRUE, <<>>)

\* The answers to the requests of the client's other functions: an envelope
\* for check_subsonic_error ...
CheckResponses ==
    {Ok(<<>>)} \cup {Failed(code) : code \in {0, 10, 20, 30, 40, 41, 50, 60, 70, 1, 71}}

\* (the codes of the API and two it does not define), search3 for songs ...
SearchEnvelopes ==
    {Ok(<<"A">>), OkEmpty, Failed(70), Failed(40), Failed(0), Failed(1), HttpError}

\* ... getPlaylists ...
UserPlaylistsResponses ==
    {Ok(<<"p1", "p2">>), Ok(<<>>), OkEmpty, Failed(70), Failed(40), HttpError}

\* ... getPlaylist: a playlist with its entries, an ok envelope without
\* them, and failures ...
GetPlaylistResponses ==
    {Ok(<<"A">>), Ok(<<"B", "A">>), OkEmpty, Failed(70), Failed(40), HttpError}

\* ... search3 for one artist ...
ArtistIdResponses ==
    {Ok(<<"ar1", "ar2">>), Ok(<<>>), OkEmpty, Failed(70), Failed(50), HttpError}

\* ... getArtist for an artist with k albums ...
ArtistResponse(k) == Ok([i \in 1..k |-> i])

\* ... getAlbum, and the answers to the getAlbum requests of one artist ...
AlbumResponses == {Ok(<<"A">>), Ok(<<"B", "C">>), Failed(70), Failed(40)}

AlbumResponseLists == UNION {[1..k -> AlbumResponses] : k \in 0..MaxAlbums}

\* ... the answers to the requests of one get_artist_discography call (to
\* search3, getArtist and each getAlbum): the artist is found and lists its
\* albums, or is not found by search3, or is not found by getArtist ...
DiscographyInputs ==
    {<<Ok(<<"ar1">>), ArtistResponse(Len(albumResponses)), albumResponses>> :
        albumResponses \in AlbumResponseLists}
    \cup {<<Failed(70), Failed(70), <<>>>>, <<Ok(<<"ar1">>), Failed(70), <<>>>>}

\* ... and getCoverArt, for the cover ids of the songs.
ArtResponses == {Image, HttpError, Failed(70), Failed(40)}

CoverIds == {"c1", "c2"}

\* An answer to stream.view: the HTTP status, the content type of the body
\* and the URL the response came from.
StreamResponse(http, content_type, url) ==
    [http |-> http, content_type |-> content_type, url |-> url]

\* The stream itself, a fault as XML, a fault as JSON (the request asks for
\* f=json), and an HTTP error.
StreamResponses ==
    {StreamResponse(200, "audio/mpeg", "u1"), StreamResponse(200, "audio/mpeg", "u2"),
     StreamResponse(200, "text/xml", "u1"), StreamResponse(200, "application/json", "u2"),
     StreamResponse(404, "text/xml", "u1")}

\* The values of the fields of the queue's entries, in order.
TracksOf(q) == [i \in 1..Len(q) |-> q[i].track]

\* The identities of the Song objects in q.
ObjsOf(q) == {q[i].obj : i \in 1..Len(q)} \ {0}

\* The value of `stopped` when the last step was not a stop of a playing song.
NoStop == [valid |-> FALSE, song |-> None, queue |-> <<>>]

\* ---------------------------------------------------------- remote client
\* What a call of a client function comes to: the exception it raises ("no":
\* it returns), the errorcode and message of an APIError, the kind of value
\* returned, the list returned (or the one-element list of the id or path
\* returned), the warnings it wrote to the log and the requests it sent.
Returned(kind, list, log) ==
    [raised |-> "no", code |-> 0, message |-> "", kind |-> kind, list |-> list,
     log |-> log, requests |-> 0]

Raised(exception, code, message, log) ==
    [raised |-> exception, code |-> code, message |-> message, kind |-> "raise",
     list |-> <<>>, log |-> log, requests |-> 0]

\* The same outcome, reached after one more request to the server.
Sent(out) == [out EXCEPT !.requests = @ + 1]

\* The codes for which check_subsonic_error raises in its own case.
FatalCodes == {0, 10, 20, 30, 40, 41, 50, 60}

\* The code of "the requested data was not found".
NotFound == 70

\* err_msg in the cases of check_subsonic_error.
err_msg(err_code) ==
    CASE err_code = 0 -> "Generic Error."
      [] err_code = 10 -> "Required Parameter Missing."
      [] err_code = 20 -> "Incompatible Subsonic REST protocol version. Client must upgrade."
      [] err_code = 30 -> "Incompatible Subsonic REST protocol version. Server must upgrade."
      [] err_code = 40 -> "Wrong username or password."
      [] err_code = 41 -> "Token authentication not supported for LDAP users."
      [] err_code = 50 -> "User is not authorized for the given operation."
      [] err_code = 60 -> "The trial period for the Subsonic server is over."
      [] err_code = NotFound -> "The requested data was not found."
      [] OTHER -> "Unknown Error Code."

\* The warning check_subsonic_error writes after its match statement.
Warning(err_code) == [code |-> err_code, message |-> err_msg(err_code)]

\* A plausible slip in check_subsonic_error: the case of code 70 raises like
\* its neighbours.
check_subsonic_error_raises_70(response) ==
    CASE response.status = "none" -> Returned("False", <<>>, <<>>)
      [] response.status = "ok" -> Returned("False", <<>>, <<>>)
      [] OTHER -> Raised("APIError", response.code, err_msg(response.code), <<>>)

\* check_subsonic_error: a ClientResponse whose body is not JSON (status
\* "none") gives False, and so does status ok; every case but 70 raises
\* APIError(err_code, err_msg) inside the match, before the warning; code 70
\* falls out of the match, is logged and gives True.
check_subsonic_error(response) ==
    CASE response.status = "none" -> Returned("False", <<>>, <<>>)
      [] response.status = "ok" -> Returned("False", <<>>, <<>>)
      [] response.code \in FatalCodes ->
            Raised("APIError", response.code, err_msg(response.code), <<>>)
      [] response.code = NotFound -> Returned("True", <<>>, <<Warning(response.code)>>)
      [] OTHER -> Raised("APIError", response.code, err_msg(response.code), <<>>)

\* APIError.__init__: the attributes an APIError object has.
APIErrorAttributes == {"errorcode", "message", "args"}

\* play_error, disco_error, playlists_error and autoplay_error, which share
\* one body, given what the command raised. The library hands the handler
\* the exception itself or a CommandInvokeError around it (wrapped). For an
\* APIError the text to log reads error.code and error.message before
\* anything is logged or shown; for anything else str(error) is logged
\* without a code (-1) and the "unknown error" message is shown.
command_error(error, wrapped) ==
    IF error.raised = "APIError" /\ ~wrapped
    THEN IF {"code", "message"} \subseteq APIErrorAttributes
         THEN Returned("API error message", <<>>,
                       <<[code |-> error.code, message |-> error.message]>>)
         ELSE Raised("AttributeError", 0, "code", <<>>)
    ELSE Returned("unknown error message", <<>>,
                  <<[code |-> -1, message |-> error.message]>>)

\* response.raise_for_status(): ClientResponseError for a status of 400 up.
raise_for_status(response) == response.http >= 400

ClientResponseError(response) == Raised("ClientResponseError", response.http, "", <<>>)

\* SearchResults(search_data): the envelope's error code (-1: None) and the
\* songs under searchResult3.song, none when a key is missing.
SearchResults(response) ==
    [Returned("SearchResults", IF response.has THEN response.items ELSE <<>>, <<>>)
        EXCEPT !.code = IF response.status = "ok" THEN -1 ELSE response.code]

\* search: an HTTP error raises; otherwise the envelope, whatever its status,
\* is wrapped into a SearchResults object, which is returned.
search(response) ==
    Sent(IF raise_for_status(response)
         THEN ClientResponseError(response)
         ELSE SearchResults(response))

\* A plausible slip in get_user_playlists: the payload is read without the
\* check for a missing "playlist" key.
get_user_playlists_reads_key(response) ==
    LET error == check_subsonic_error(response) IN
    Sent(CASE raise_for_status(response) -> ClientResponseError(response)
           [] error.raised # "no" -> error
           [] error.kind = "True" -> Returned("None", <<>>, error.log)
           [] ~response.has -> Raised("KeyError", 0, "playlist", <<>>)
           [] OTHER -> Returned("list", response.items, <<>>))

\* get_user_playlists: an HTTP error and the fatal codes raise, code 70 gives
\* None, a payload without "playlist" gives [] and otherwise the list under
\* playlists.playlist is returned.
get_user_playlists(response) ==
    LET error == check_subsonic_error(response) IN
    Sent(CASE raise_for_status(response) -> ClientResponseError(response)
           [] error.raised # "no" -> error
           [] error.kind = "True" -> Returned("None", <<>>, error.log)
           [] ~response.has -> Returned("list", <<>>, <<>>)
           [] OTHER -> Returned("list", response.items, <<>>))

\* What get_playlist logs when Playlist(...) raises.
ParseError == [code |-> -1, message |-> "Failed to parse playlist data"]

\* A plausible slip in get_playlist: Playlist(...) is built outside a try.
get_playlist_no_try(response) ==
    LET error == check_subsonic_error(response) IN
    Sent(CASE raise_for_status(response) -> ClientResponseError(response)
           [] error.raised # "no" -> error
           [] error.kind = "True" -> Returned("None", <<>>, error.log)
           [] ~response.has -> Raised("KeyError", 0, "playlist", <<>>)
           [] OTHER -> Returned("Playlist", response.items, <<>>))

\* get_playlist: an HTTP error and a fatal error code raise, code 70 gives
\* None; then Playlist(...) is built from the "playlist" key and its
\* "entry" list inside a try: any exception is logged and gives None.
get_playlist(response) ==
    LET error == check_subsonic_error(response) IN
    Sent(CASE raise_for_status(response) -> ClientResponseError(response)
           [] error.raised # "no" -> error
           [] error.kind = "True" -> Returned("None", <<>>, error.log)
           [] ~response.has -> Returned("None", <<>>, <<ParseError>>)
           [] OTHER -> Returned("Playlist", response.items, <<>>))

\* get_artist_id: an HTTP error and the fatal codes raise, code 70 gives
\* None; otherwise searchResult3["artist"][0]["id"] is read, which raises
\* KeyError without the key and IndexError on an empty list.
get_artist_id(response) ==
    LET error == check_subsonic_error(response) IN
    Sent(CASE raise_for_status(response) -> ClientResponseError(response)
           [] error.raised # "no" -> error
           [] error.kind = "True" -> Returned("None", <<>>, error.log)
           [] ~response.has -> Raised("KeyError", 0, "artist", <<>>)
           [] response.items = <<>> -> Raised("IndexError", 0, "", <<>>)
           [] OTHER -> Returned("id", <<response.items[1]>>, <<>>))

\* One getAlbum request of get_artist_discography: an HTTP error and the
\* fatal codes raise, code 70 gives None, Album(...) raises KeyError without
\* "song", and otherwise the album with its songs is parsed.
get_album(response) ==
    LET error == check_subsonic_error(response) IN
    Sent(CASE raise_for_status(response) -> ClientResponseError(response)
           [] error.raised # "no" -> error
           [] error.kind = "True" -> Returned("None", <<>>, error.log)
           [] ~response.has -> Raised("KeyError", 0, "song", <<>>)
           [] OTHER -> Returned("album", response.items, <<>>))

\* What follows `out` when `next` comes after it: the requests and the log
\* of both.
Then(out, next) ==
    [next EXCEPT !.requests = @ + out.requests, !.log = out.log \o @]

\* A plausible slip in the loop of get_artist_discography: an album that
\* cannot be fetched is passed over and the loop goes on.
RECURSIVE album_loop_continues(_, _)
album_loop_continues(albumResponses, album_list) ==
    IF albumResponses = <<>>
    THEN Returned("list", album_list, <<>>)
    ELSE LET album == get_album(Head(albumResponses)) IN
         IF album.kind # "album"
         THEN Then(album, album_loop_continues(Tail(albumResponses), album_list))
         ELSE Then(album, album_loop_continues(Tail(albumResponses),
                                               Append(album_list, album.list)))

\* The loop of get_artist_discography over the artist's albums, the server
\* answering the i-th getAlbum request with albumResponses[i]: the first
\* album that raises or gives None ends the call; otherwise the album is
\* appended to album_list.
RECURSIVE album_loop(_, _)
album_loop(albumResponses, album_list) ==
    IF albumResponses = <<>>
    THEN Returned("list", album_list, <<>>)
    ELSE LET album == get_album(Head(albumResponses)) IN
         IF album.kind # "album"
         THEN album
         ELSE Then(album, album_loop(Tail(albumResponses), Append(album_list, album.list)))

\* get_artist_discography: get_artist_id (its None is passed on as the id),
\* then getArtist (an HTTP error and the fatal codes raise, code 70 gives
\* None, a payload without "album" raises KeyError), then the loop over the
\* albums listed, in their order.
get_artist_discography(idResponse, artistResponse, albumResponses) ==
    LET artistid == get_artist_id(idResponse)
        error == check_subsonic_error(artistResponse)
        artist == Sent(CASE raise_for_status(artistResponse) -> ClientResponseError(artistResponse)
                         [] error.raised # "no" -> error
                         [] error.kind = "True" -> Returned("None", <<>>, error.log)
                         [] ~artistResponse.has -> Raised("KeyError", 0, "album", <<>>)
                         [] OTHER -> Returned("albums", artistResponse.items, <<>>))
    IN  IF artistid.raised # "no" THEN artistid
        ELSE IF artist.kind # "albums" THEN Then(artistid, artist)
        ELSE Then(artistid, Then(artist,
                 album_loop(SubSeq(albumResponses, 1, Len(artistResponse.items)), <<>>)))

\* target_path of get_album_art_file and the path of the bundled image.
CachePath(cover_id) == [dir |-> "cache", name |-> cover_id]

FallbackPath == [dir |-> "resources", name |-> "cover_not_found"]

\* A plausible slip in get_album_art_file: the cover is requested without a
\* look at the cache.
get_album_art_file_always_fetches(cover_id, response, cached) ==
    LET error == check_subsonic_error(response) IN
    CASE error.raised # "no" -> [out |-> Sent(error), cache |-> cached]
      [] error.kind = "True" \/ response.http # 200 ->
            [out |-> Sent(Returned("path", <<FallbackPath>>, error.log)), cache |-> cached]
      [] OTHER ->
            [out |-> Sent(Returned("path", <<CachePath(cover_id)>>, <<>>)),
             cache |-> cached \cup {cover_id}]

\* get_album_art_file with the covers `cached` in the cache directory: the
\* path of a cached cover is returned at once. Otherwise getCoverArt is
\* requested: a fatal code raises, code 70 or an HTTP status other than 200
\* gives the bundled image, and otherwise the body is written to the cache
\* and its path returned.
get_album_art_file(cover_id, response, cached) ==
    LET error == check_subsonic_error(response) IN
    CASE cover_id \in cached ->
            [out |-> Returned("path", <<CachePath(cover_id)>>, <<>>), cache |-> cached]
      [] error.raised # "no" -> [out |-> Sent(error), cache |-> cached]
      [] error.kind = "True" \/ response.http # 200 ->
            [out |-> Sent(Returned("path", <<FallbackPath>>, error.log)), cache |-> cached]
      [] OTHER ->
            [out |-> Sent(Returned("path", <<CachePath(cover_id)>>, <<>>)),
             cache |-> cached \cup {cover_id}]

\* A plausible slip in get_random_songs: the last item of the response is
\* left out.
get_random_songs_drops_last(response) ==
    LET error == check_subsonic_error(response) IN
    Sent(CASE raise_for_status(response) -> ClientResponseError(response)
           [] error.raised # "no" -> error
           [] error.kind = "True" -> Returned("list", <<>>, error.log)
           [] ~response.has -> Raised("KeyError", 0, "song", <<>>)
           [] OTHER -> Returned("list", SubSeq(response.items, 1, Len(response.items) - 1), <<>>))

\* get_random_songs with every parameter None (no filter is added to the
\* request): an HTTP error and the fatal codes raise, code 70 gives [], and
\* otherwise the items under randomSongs.song are parsed in order; a payload
\* without that key raises KeyError.
get_random_songs(response) ==
    LET error == check_subsonic_error(response) IN
    Sent(CASE raise_for_status(response) -> ClientResponseError(response)
           [] error.raised # "no" -> error
           [] error.kind = "True" -> Returned("list", <<>>, error.log)
           [] ~response.has -> Raised("KeyError", 0, "song", <<>>)
           [] OTHER -> Returned("list", response.items, <<>>))

\* A plausible slip in get_similar_songs: no check of song_id, the request
\* is made with id None and answered.
get_similar_songs_asks_for_none(song_id, response) ==
    LET error == check_subsonic_error(response) IN
    Sent(CASE raise_for_status(response) -> ClientResponseError(response)
           [] error.raised # "no" -> error
           [] error.kind = "True" -> Returned("list", <<>>, error.log)
           [] ~response.has -> Returned("list", <<>>, <<>>)
           [] OTHER -> Returned("list", response.items, <<>>))

\* get_similar_songs: [] without a request when song_id is None; an HTTP
\* error and the fatal codes raise, code 70 gives [], similarSongs == {}
\* gives [], and otherwise the items under similarSongs.song are parsed.
get_similar_songs(song_id, response) ==
    LET error == check_subsonic_error(response) IN
    IF song_id = "None"
    THEN Returned("list", <<>>, <<>>)
    ELSE Sent(CASE raise_for_status(response) -> ClientResponseError(response)
                [] error.raised # "no" -> error
                [] error.kind = "True" -> Returned("list", <<>>, error.log)
                [] ~response.has -> Returned("list", <<>>, <<>>)
                [] OTHER -> Returned("list", response.items, <<>>))

\* A plausible slip in stream: the content type is not looked at.
stream_ignores_fault(response) ==
    Sent(IF raise_for_status(response)
         THEN ClientResponseError(response)
         ELSE Returned("url", <<response.url>>, <<>>))

\* stream: an HTTP error raises; a body of content type text/xml is logged
\* as an error and gives None; otherwise the URL of the response is
\* returned.
stream(response) ==
    Sent(CASE raise_for_status(response) -> ClientResponseError(response)
           [] response.content_type = "text/xml" ->
                 Returned("None", <<>>, <<[code |-> 0, message |-> "Failed to stream song"]>>)
           [] OTHER -> Returned("url", <<response.url>>, <<>>))

\* The client call a step made: the function, the server's answers it got
\* and what it came to.
Call(fn, arg, out) == [fn |-> fn, arg |-> arg, out |-> out]

NoCall == Call("none", <<>>, Returned("None", <<>>, <<>>))

\* AutoplayEngine: the client call the engine makes for a mode, the track
\* that just finished (None when there is none) and the server's answer.
AutoplayFetch(mode, last, response) ==
    CASE mode = "NONE" -> NoCall
      [] mode = "RANDOM" ->
            Call("get_random_songs", <<response>>, get_random_songs(response))
      [] mode = "SIMILAR" ->
            Call("get_similar_songs", <<response>>, get_similar_songs(last.track, response))

\* The answers the server can give to the engine's request.
AutoplayResponses(mode, last) ==
    CASE mode = "NONE" -> {OkEmpty}
      [] mode = "RANDOM" -> RandomResponses
      [] mode = "SIMILAR" -> SimilarResponses(last.track)

\* The most ClientSession objects created in a run.
MaxSessions == 3

\* The coroutines that ask for the session.
Callers == {"a", "b", "c"}

\* The module subsonic when it is imported: globalsession is None, no
\* session has been created and no coroutine holds one.
NoSession == [globalsession |-> 0, created |-> 0, held |-> [caller \in Callers |-> 0]]

\* A plausible slip in get_session: a session is created at every call.
get_session_always_creates(globalsession, created) ==
    [session |-> created + 1, created |-> created + 1]

\* get_session: if globalsession is None a ClientSession is created (the
\* next one of the run) and stored; globalsession is returned. The
\* function does not suspend between the test and the assignment.
get_session(globalsession, created) ==
    IF globalsession = 0
    THEN [session |-> created + 1, created |-> created + 1]
    ELSE [session |-> globalsession, created |-> created]

\* close_session: a session that is there is closed and globalsession set
\* to None.
close_session(globalsession) == 0

\* The guilds the bot serves.
Guilds == {"G", "H"}

\* What guild_data(id) and guild_properties(id) create on first access, with
\* the guild's entry of bot.voice_clients: an empty queue, no current song,
\* autoplay NONE, no voice client. Songs are told apart by their field
\* values here, None being the track "None".
NewGuild ==
    [queue |-> <<>>, current_song |-> "None", autoplay_mode |-> "NONE",
     voice |-> FALSE, playing |-> FALSE]

VARIABLES
    queue,          \* player.queue
    current_song,   \* player.current_song
    playing,        \* voice_client.is_playing()
    autoplay_mode,  \* guild_properties(guild).autoplay_mode
    voice,          \* the bot has a voice client for the guild
    users,          \* members of the voice channel other than the bot
    waiting,        \* watchdog handlers asleep, holding the live voice client
    waitingStale,   \* watchdog handlers asleep, holding a disconnected client
    nextObj,        \* identity of the next Song object to be created
    last_op,        \* history: the operation that made the last step
    scenario,       \* history: progress along the end-to-end trace of C10 (1..5)
                    \*          and along the watchdog trace of C27 (6..8); 9 while
                    \*          the queue is left to drain (C35)
    stopped,        \* history: what a stop that made the last step interrupted
    call,           \* history: the client call the last step made
    cache,          \* the cover ids that have a file in the cache directory
    guilds,         \* guild_data(id), guild_properties(id) and the voice client
                    \* of every guild, for the commands told apart by guild
    sessions        \* subsonic.globalsession (0: None), the number of
                    \* ClientSession objects created so far, and the session
                    \* each coroutine got from its last get_session

vars == <<queue, current_song, playing, autoplay_mode, voice, users,
          waiting, waitingStale, nextObj, last_op, scenario, stopped,
          call, cache, guilds, sessions>>

player == <<queue, current_song, playing, nextObj>>

watchdog == <<users, waiting, waitingStale>>

Init ==
    /\ queue = <<>>
    /\ current_song = None
    /\ playing = FALSE
    /\ autoplay_mode = "NONE"
    /\ voice = FALSE
    /\ users = 0
    /\ waiting = 0
    /\ waitingStale = 0
    /\ nextObj = 1
    /\ last_op = "init"
    /\ scenario = 0
    /\ stopped = NoStop
    /\ call = NoCall
    /\ cache = {}
    /\ guilds = [id \in Guilds |-> NewGuild]
    /\ sessions = NoSession

\* ------------------------------------------------- helpers of the actions
\* list.pop(i) leaves the list without its i-th element.
RemoveAt(s, i) == SubSeq(s, 1, i - 1) \o SubSeq(s, i + 1, Len(s))

\* copy.deepcopy(queue): a new list of new Song objects with the same field
\* values (None is copied to None); the first copy is the n-th object.
DeepCopy(q, n) ==
    [i \in 1..Len(q) |-> IF q[i] = None THEN None ELSE Song(n + i - 1, q[i].track)]

\* A plausible slip in the loop of shuffle: the element at the random index is
\* appended, but the first element is the one popped.
RECURSIVE Shuffles_pops_first(_)
Shuffles_pops_first(temporaryqueue) ==
    IF temporaryqueue = <<>> THEN {<<>>}
    ELSE UNION { { <<temporaryqueue[randomindex]>> \o rest :
                     rest \in Shuffles_pops_first(RemoveAt(temporaryqueue, 1)) } :
                 randomindex \in 1..Len(temporaryqueue) }

\* The loop of shuffle: while temporaryqueue is not empty, pop the element at
\* a random index and append it to shuffledqueue. All the lists it can build.
RECURSIVE Shuffles(_)
Shuffles(temporaryqueue) ==
    IF temporaryqueue = <<>> THEN {<<>>}
    ELSE UNION { { <<temporaryqueue[randomindex]>> \o rest :
                     rest \in Shuffles(RemoveAt(temporaryqueue, randomindex)) } :
                 randomindex \in 1..Len(temporaryqueue) }

\* for album in albums: for song in album.songs: the songs in source order.
RECURSIVE AlbumSongs(_)
AlbumSongs(albums) ==
    IF albums = <<>> THEN <<>> ELSE Head(albums) \o AlbumSongs(Tail(albums))

\* Player.play_audio_queue, called with voice client vc (FALSE: none), the
\* sink busy or not, the queue q, the current song cur, the track `last` that
\* just finished, n objects created so far, the guild's autoplay mode and the
\* server's answer to the engine's request. Nothing happens without a voice
\* client or while the sink plays. Otherwise an empty queue is first refilled
\* by the autoplay engine (a fetch that raises adds nothing); then the head
\* is popped, made the current song and handed to the sink (streaming None
\* fails, nothing plays); with nothing to play the player is Idle.
play_audio_queue(vc, busy, q, cur, last, n, mode, response) ==
    IF ~vc \/ busy
    THEN /\ queue' = q
         /\ current_song' = cur
         /\ playing' = busy
         /\ nextObj' = n
         /\ call' = NoCall
    ELSE LET fetch == AutoplayFetch(IF q = <<>> THEN mode ELSE "NONE", last, response)
             refilled == q \o Songs(fetch.out.list, n)
         IN  /\ n + Len(fetch.out.list) <= MaxObj + 1
             /\ Len(refilled) <= MaxQueue
             /\ nextObj' = n + Len(fetch.out.list)
             /\ call' = fetch
             /\ IF refilled = <<>>
                THEN /\ queue' = <<>>
                     /\ current_song' = None
                     /\ playing' = FALSE
                ELSE /\ queue' = Tail(refilled)
                     /\ current_song' = Head(refilled)
                     /\ playing' = (Head(refilled) # None)

\* play_audio_queue for each answer the server can give.
play_audio_queue_any(vc, busy, q, cur, last, n, mode) ==
    \E response \in AutoplayResponses(IF q = <<>> THEN mode ELSE "NONE", last) :
        play_audio_queue(vc, busy, q, cur, last, n, mode, response)

\* The history variables after a step of operation op that leaves the
\* end-to-end trace at `stage`. The cover art requests of the commands are
\* their input artOk; the cache directory is followed for the client's own
\* calls only.
Observe(op, stage) ==
    /\ last_op' = op
    /\ scenario' = stage
    /\ stopped' = NoStop
    /\ cache' = cache
    /\ guilds' = guilds
    /\ sessions' = sessions

\* The player is Idle: no current song and a silent sink.
Idle == current_song = None /\ ~playing

\* The first step of the end-to-end trace: A, B, C enqueued on an Idle player
\* with an empty queue and autoplay NONE.
StartsScenario(batch) ==
    Idle /\ queue = <<>> /\ autoplay_mode = "NONE" /\ batch = <<"A", "B", "C">>

\* ---------------------------------------------------------------- commands
\* A plausible slip in play: the check of the autoplay mode is left out and
\* the engine is asked for random songs whatever the mode.
play_ignores_mode ==
    /\ users >= 1
    /\ voice' = TRUE
    /\ IF playing
       THEN /\ UNCHANGED player
            /\ call' = NoCall
            /\ Observe("play", 0)
       ELSE /\ play_audio_queue_any(TRUE, FALSE, queue, current_song, current_song, nextObj, "RANDOM")
            /\ Observe("play", IF scenario = 1 THEN 2 ELSE 0)
    /\ UNCHANGED <<autoplay_mode, watchdog>>

\* play with no query: start playback of the queue. The author must be in a
\* voice channel; the bot connects; "already playing" and "queue is empty"
\* (empty queue with autoplay NONE) end the command.
play ==
    /\ users >= 1
    /\ voice' = TRUE
    /\ IF playing \/ (queue = <<>> /\ autoplay_mode = "NONE")
       THEN /\ UNCHANGED player
            /\ call' = NoCall
            /\ Observe("play", 0)
       ELSE /\ play_audio_queue_any(TRUE, FALSE, queue, current_song, current_song, nextObj, autoplay_mode)
            /\ Observe("play", IF scenario = 1 THEN 2 ELSE 0)
    /\ UNCHANGED <<autoplay_mode, watchdog>>

\* play track <query>: subsonic.search returns a SearchResults object, which
\* has neither __len__ nor __getitem__: len(songs) raises TypeError before
\* anything is appended, and play_error reports it.
play_track(songs) ==
    /\ users >= 1
    /\ voice' = TRUE
    /\ Observe("play_track", 0)
    /\ UNCHANGED <<player, autoplay_mode, watchdog>>
    /\ call' = NoCall

\* play album <query>: the module subsonic defines no search_album, the call
\* raises AttributeError and play_error reports it.
play_album ==
    /\ users >= 1
    /\ voice' = TRUE
    /\ Observe("play_album", 0)
    /\ UNCHANGED <<player, autoplay_mode, watchdog>>
    /\ call' = NoCall

\* A plausible slip in play playlist: each song is inserted at position 0
\* instead of appended.
play_playlist_inserts_first(found, songs, artOk) ==
    /\ users >= 1
    /\ voice' = TRUE
    /\ UNCHANGED <<autoplay_mode, watchdog>>
    /\ IF ~found
       THEN /\ UNCHANGED player
            /\ call' = NoCall
            /\ Observe("play_playlist", 0)
       ELSE LET created == Songs(songs, nextObj)
                inserted == [i \in 1..Len(songs) |-> created[Len(songs) + 1 - i]] \o queue
                n == nextObj + Len(songs)
            IN  /\ n <= MaxObj + 1
                /\ Len(inserted) <= MaxQueue
                /\ IF artOk
                   THEN /\ play_audio_queue_any(TRUE, playing, inserted, current_song, current_song, n, autoplay_mode)
                        /\ Observe("play_playlist", IF StartsScenario(songs) THEN 2 ELSE 0)
                   ELSE /\ queue' = inserted
                        /\ nextObj' = n
                        /\ UNCHANGED <<current_song, playing>>
                        /\ call' = NoCall
                        /\ Observe("play_playlist", IF StartsScenario(songs) THEN 1 ELSE 0)

\* play playlist <query>: found is FALSE when no playlist of that name can be
\* fetched (the command returns, or an APIError reaches play_error).
\* Otherwise its songs are appended in order; artOk is FALSE when the cover
\* art request of added_playlist_to_queue raises, which ends the command
\* before play_audio_queue.
play_playlist(found, songs, artOk) ==
    /\ users >= 1
    /\ voice' = TRUE
    /\ UNCHANGED <<autoplay_mode, watchdog>>
    /\ IF ~found
       THEN /\ UNCHANGED player
            /\ call' = NoCall
            /\ Observe("play_playlist", 0)
       ELSE LET appended == queue \o Songs(songs, nextObj)
                n == nextObj + Len(songs)
            IN  /\ n <= MaxObj + 1
                /\ Len(appended) <= MaxQueue
                /\ IF artOk
                   THEN /\ play_audio_queue_any(TRUE, playing, appended, current_song, current_song, n, autoplay_mode)
                        /\ Observe("play_playlist", IF StartsScenario(songs) THEN 2 ELSE 0)
                   ELSE /\ queue' = appended
                        /\ nextObj' = n
                        /\ UNCHANGED <<current_song, playing>>
                        /\ call' = NoCall
                        /\ Observe("play_playlist", IF StartsScenario(songs) THEN 1 ELSE 0)

\* disco <artist>: the bot connects when the author is in a voice channel
\* (inVoice) and otherwise goes on without a voice client. found is FALSE
\* when get_artist_discography gives None or raises. The songs of all albums
\* are appended, album by album; added_discography_to_queue raises on an
\* empty album list (albums[0]) or when the cover art request fails (artOk
\* FALSE), which ends the command before play_audio_queue.
disco(inVoice, found, albums, artOk) ==
    /\ inVoice => users >= 1
    /\ voice' = (voice \/ inVoice)
    /\ UNCHANGED <<autoplay_mode, watchdog>>
    /\ IF ~found
       THEN /\ UNCHANGED player
            /\ call' = NoCall
            /\ Observe("disco", 0)
       ELSE LET songs == AlbumSongs(albums)
                appended == queue \o Songs(songs, nextObj)
                n == nextObj + Len(songs)
            IN  /\ n <= MaxObj + 1
                /\ Len(appended) <= MaxQueue
                /\ IF artOk /\ albums # <<>>
                   THEN /\ play_audio_queue_any(voice', playing, appended, current_song, current_song, n, autoplay_mode)
                        /\ Observe("disco", IF StartsScenario(songs) THEN (IF voice' THEN 2 ELSE 1) ELSE 0)
                   ELSE /\ queue' = appended
                        /\ nextObj' = n
                        /\ UNCHANGED <<current_song, playing>>
                        /\ call' = NoCall
                        /\ Observe("disco", IF StartsScenario(songs) THEN 1 ELSE 0)

\* A plausible slip in stop: the song is put back but current_song is kept.
stop_keeps_current ==
    /\ voice
    /\ Len(queue) < MaxQueue
    /\ playing' = FALSE
    /\ queue' = <<current_song>> \o queue
    /\ last_op' = "stop"
    /\ scenario' = 0
    /\ stopped' = [valid |-> playing /\ current_song # None, song |-> current_song, queue |-> queue]
    /\ cache' = cache
    /\ UNCHANGED <<current_song, autoplay_mode, voice, watchdog, nextObj, guilds, sessions>>
    /\ call' = NoCall

\* stop: without a voice client the command returns. Otherwise the sink is
\* stopped, current_song is set to None and then player.current_song, which
\* is None by now, is inserted at position 0 of the queue. "Not playing" is
\* reported without leaving the command.
stop ==
    /\ voice
    /\ Len(queue) < MaxQueue
    /\ playing' = FALSE
    /\ current_song' = None
    /\ queue' = <<current_song'>> \o queue
    /\ last_op' = "stop"
    /\ scenario' = 0
    /\ stopped' = [valid |-> playing /\ current_song # None, song |-> current_song, queue |-> queue]
    /\ cache' = cache
    /\ UNCHANGED <<autoplay_mode, voice, watchdog, nextObj, guilds, sessions>>
    /\ call' = NoCall

\* A plausible slip in clear: the whole player is reset.
clear_queue_resets ==
    /\ queue' = <<>>
    /\ current_song' = None
    /\ Observe("clear_queue", 0)
    /\ UNCHANGED <<playing, autoplay_mode, voice, watchdog, nextObj>>
    /\ call' = NoCall

\* clear: queue.clear().
clear_queue ==
    /\ queue' = <<>>
    /\ Observe("clear_queue", 0)
    /\ UNCHANGED <<current_song, playing, autoplay_mode, voice, watchdog, nextObj>>
    /\ call' = NoCall

\* Player.skip_track: the current song is stopped and dropped, the player is
\* Idle, and play_audio_queue goes on with the queue.
skip_track ==
    play_audio_queue_any(voice, FALSE, queue, None, current_song, nextObj, autoplay_mode)

\* A plausible slip in skip: the song skipped is put back at the end of the
\* queue before playback goes on.
skip_requeues ==
    /\ voice
    /\ playing
    /\ play_audio_queue_any(voice, FALSE, queue \o <<current_song>>, None, current_song, nextObj, autoplay_mode)
    /\ Observe("skip", IF scenario = 3 THEN 4 ELSE 0)
    /\ UNCHANGED <<autoplay_mode, voice, watchdog>>

\* A plausible slip in skip: the two checks are left out.
skip_unchecked ==
    /\ play_audio_queue_any(TRUE, FALSE, queue, None, current_song, nextObj, autoplay_mode)
    /\ Observe("skip", IF scenario = 3 THEN 4 ELSE 0)
    /\ UNCHANGED <<autoplay_mode, voice, watchdog>>

\* skip: without a voice client, or with a voice client that is not
\* playing, an error message is sent and the command returns; otherwise
\* Player.skip_track.
skip ==
    /\ IF voice /\ playing
       THEN skip_track
       ELSE /\ UNCHANGED player
            /\ call' = NoCall
    /\ Observe("skip", CASE scenario = 3 /\ voice /\ playing -> 4
                          [] scenario = 9 -> 9
                          [] OTHER -> 0)
    /\ UNCHANGED <<autoplay_mode, voice, watchdog>>

\* Whether the argument of autoplay has the attributes .value and .name:
\* a parameter annotated Literal['none', 'random', 'similar'] arrives as str.
HasValue(mode) == FALSE

\* autoplay <mode>: the f-string of the first statement reads mode.value,
\* which raises AttributeError on a str; autoplay_error reports it. With an
\* argument that has .value the mode is set and, with a silent voice client,
\* playback of the queue starts.
autoplay(mode) ==
    IF ~HasValue(mode)
    THEN /\ Observe("autoplay", 0)
         /\ UNCHANGED <<player, autoplay_mode, voice, watchdog>>
         /\ call' = NoCall
    ELSE /\ autoplay_mode' = mode
         /\ Observe("autoplay", 0)
         /\ UNCHANGED <<voice, watchdog>>
         /\ IF voice /\ ~playing
            THEN play_audio_queue_any(voice, FALSE, queue, current_song, current_song, nextObj, mode)
            ELSE /\ UNCHANGED player
                 /\ call' = NoCall

\* shuffle: the queue is replaced by one of the lists the loop can build
\* from a deep copy of it.
shuffle ==
    /\ nextObj + Len(queue) <= MaxObj + 1
    /\ queue' \in Shuffles(DeepCopy(queue, nextObj))
    /\ nextObj' = nextObj + Len(queue)
    /\ Observe("shuffle", 0)
    /\ UNCHANGED <<current_song, playing, autoplay_mode, voice, watchdog>>
    /\ call' = NoCall

\* ------------------------------------------------------------ voice sink
\* The sink reports the natural end of the track: the player is Idle and
\* play_audio_queue goes on, the track that ended being the autoplay context
\* and `response` the server's answer to the engine's request.
track_end(response) ==
    /\ playing
    /\ play_audio_queue(voice, FALSE, queue, None, current_song, nextObj, autoplay_mode, response)
    /\ Observe("track_end", CASE scenario = 2 -> 3
                               [] scenario = 4 -> 5
                               [] scenario = 9 -> 9
                               [] OTHER -> 0)
    /\ UNCHANGED <<autoplay_mode, voice, watchdog>>

\* ------------------------------------------------------ occupancy watchdog
\* len(voice_client.channel.members) for the one voice channel of the guild.
Members(connected) == users + (IF connected THEN 1 ELSE 0)

\* The watchdog trace: a first handler goes to sleep with the bot alone (6),
\* a member joins while it sleeps (7) and leaves again, which sends a second
\* handler to sleep (8); the handler that expires next is the first one.
WatchdogStage(change) ==
    CASE voice /\ users + change = 0 /\ waiting = 0 /\ waitingStale = 0 -> 6
      [] scenario = 6 /\ change = 1 -> 7
      [] scenario = 7 /\ change = -1 -> 8
      [] OTHER -> 0

\* on_voice_state_update up to its sleep: a voice state change of the guild
\* (a user joins, leaves, or changes in place) calls the handler; it returns
\* without a voice client, and goes to sleep when the bot is alone.
on_voice_state_update(change) ==
    /\ users + change \in 0..MaxUsers
    /\ users' = users + change
    /\ IF voice /\ users' = 0
       THEN /\ waiting + waitingStale < MaxWaiting
            /\ waiting' = waiting + 1
       ELSE waiting' = waiting
    /\ Observe("on_voice_state_update", WatchdogStage(change))
    /\ UNCHANGED <<player, autoplay_mode, voice, waitingStale>>
    /\ call' = NoCall

\* A plausible slip in the handler: the queue is cleared but current_song is
\* left as it is.
watchdog_expire_keeps_current ==
    /\ waiting > 0
    /\ Observe("watchdog_expire", 0)
    /\ IF Members(TRUE) = 1
       THEN /\ voice' = FALSE
            /\ playing' = FALSE
            /\ queue' = <<>>
            /\ waiting' = 0
            /\ waitingStale' = waitingStale + waiting - 1
            /\ UNCHANGED <<current_song, autoplay_mode, users, nextObj>>
            /\ call' = NoCall
       ELSE /\ waiting' = waiting - 1
            /\ UNCHANGED <<player, autoplay_mode, voice, users, waitingStale>>
            /\ call' = NoCall

\* on_voice_state_update after its sleep, its voice client still connected:
\* alone, the bot disconnects (the sink stops; the other sleepers are left
\* with a disconnected client) and the player is reset; otherwise it aborts.
watchdog_expire ==
    /\ waiting > 0
    /\ Observe("watchdog_expire", 0)
    /\ IF Members(TRUE) = 1
       THEN /\ voice' = FALSE
            /\ playing' = FALSE
            /\ queue' = <<>>
            /\ current_song' = None
            /\ waiting' = 0
            /\ waitingStale' = waitingStale + waiting - 1
            /\ UNCHANGED <<autoplay_mode, users, nextObj>>
            /\ call' = NoCall
       ELSE /\ waiting' = waiting - 1
            /\ UNCHANGED <<player, autoplay_mode, voice, users, waitingStale>>
            /\ call' = NoCall

\* on_voice_state_update after its sleep, its voice client disconnected in
\* the meantime. Whether that client still names its channel is up to the
\* library (hasChannel); without it the handler raises. With it the members
\* of the channel are counted (the bot is one of them if it has connected
\* again); alone, disconnect() of the dead client does nothing and the
\* player is reset.
watchdog_expire_stale(hasChannel) ==
    /\ waitingStale > 0
    /\ waitingStale' = waitingStale - 1
    /\ Observe("watchdog_expire_stale", 0)
    /\ IF hasChannel /\ Members(voice) = 1
       THEN /\ queue' = <<>>
            /\ current_song' = None
            /\ UNCHANGED <<playing, autoplay_mode, voice, users, waiting, nextObj>>
            /\ call' = NoCall
       ELSE /\ UNCHANGED <<player, autoplay_mode, voice, users, waiting>>
            /\ call' = NoCall

\* ------------------------------------------------------------ the system
Next ==
    \/ play
    \/ \E songs \in SearchResponses : play_track(songs)
    \/ play_album
    \/ play_playlist(FALSE, <<>>, FALSE)
    \/ \E songs \in PlaylistResponses, artOk \in BOOLEAN :
          play_playlist(TRUE, songs, artOk)
    \/ \E inVoice \in BOOLEAN : disco(inVoice, FALSE, <<>>, FALSE)
    \/ \E inVoice \in BOOLEAN, albums \in DiscographyResponses, artOk \in BOOLEAN :
          disco(inVoice, TRUE, albums, artOk)
    \/ stop
    \/ clear_queue
    \/ skip
    \/ \E mode \in AutoplayModes : autoplay(mode)
    \/ shuffle
    \/ \E response \in AutoplayResponses(IF queue = <<>> THEN autoplay_mode ELSE "NONE", current_song) :
          track_end(response)
    \/ \E change \in {-1, 0, 1} : on_voice_state_update(change)
    \/ watchdog_expire
    \/ \E hasChannel \in BOOLEAN : watchdog_expire_stale(hasChannel)

Spec == Init /\ [][Next]_vars

\* The same system left to drain its queue. From some moment on at which a
\* song plays with autoplay NONE, nothing is enqueued and nobody stops: the
\* steps are ends of tracks and skips. The sink reports the end of every
\* track it plays. `scenario` is 9 from that moment on.
begin_drain ==
    /\ scenario # 9
    /\ playing
    /\ autoplay_mode = "NONE"
    /\ scenario' = 9
    /\ last_op' = "begin_drain"
    /\ stopped' = NoStop
    /\ call' = NoCall
    /\ UNCHANGED <<player, autoplay_mode, voice, watchdog, cache, guilds, sessions>>

track_ends == \E response \in AutoplayResponses("NONE", current_song) : track_end(response)

NextDrain ==
    \/ scenario # 9 /\ Next
    \/ begin_drain
    \/ scenario = 9 /\ track_ends
    \/ scenario = 9 /\ skip

SpecDrain == Init /\ [][NextDrain]_vars /\ WF_vars(scenario = 9 /\ track_ends)

\* The same system with another value of the guild's autoplay mode in
\* guild_properties when the player is created.
InitMode(mode) ==
    /\ queue = <<>>
    /\ current_song = None
    /\ playing = FALSE
    /\ autoplay_mode = mode
    /\ voice = FALSE
    /\ users = 0
    /\ waiting = 0
    /\ waitingStale = 0
    /\ nextObj = 1
    /\ last_op = "init"
    /\ scenario = 0
    /\ stopped = NoStop
    /\ call = NoCall
    /\ cache = {}
    /\ guilds = [id \in Guilds |-> NewGuild]
    /\ sessions = NoSession

SpecRandom == InitMode("RANDOM") /\ [][Next]_vars

SpecSimilar == InitMode("SIMILAR") /\ [][Next]_vars

\* ------------------------------------------------- the client on its own
\* A step that is a call of a client function.
ClientStep(fn, arg, out) ==
    /\ call' = Call(fn, arg, out)
    /\ last_op' = fn
    /\ scenario' = 0
    /\ stopped' = NoStop
    /\ UNCHANGED <<player, autoplay_mode, voice, watchdog, guilds, sessions>>

check_call(response) ==
    /\ ClientStep("check_subsonic_error", <<response>>, check_subsonic_error(response))
    /\ cache' = cache

search_call(response) ==
    /\ ClientStep("search", <<response>>, search(response))
    /\ cache' = cache

get_user_playlists_call(response) ==
    /\ ClientStep("get_user_playlists", <<response>>, get_user_playlists(response))
    /\ cache' = cache

get_playlist_call(response) ==
    /\ ClientStep("get_playlist", <<response>>, get_playlist(response))
    /\ cache' = cache

\* play playlist from the return of get_playlist on: None or an exception
\* (play_error) ends the command, the songs of a Playlist are enqueued.
play_playlist_after_call(artOk) ==
    /\ call.fn = "get_playlist"
    /\ play_playlist(call.out.kind = "Playlist", call.out.list, artOk)

get_artist_id_call(response) ==
    /\ ClientStep("get_artist_id", <<response>>, get_artist_id(response))
    /\ cache' = cache

get_artist_discography_call(idResponse, artistResponse, albumResponses) ==
    /\ ClientStep("get_artist_discography", <<idResponse, artistResponse, albumResponses>>,
                  get_artist_discography(idResponse, artistResponse, albumResponses))
    /\ cache' = cache

\* disco from the return of get_artist_discography on: None or an exception
\* (disco_error) ends the command, a list is enqueued.
disco_after_call(inVoice, artOk) ==
    /\ call.fn = "get_artist_discography"
    /\ disco(inVoice, call.out.kind = "list", call.out.list, artOk)

get_album_art_file_call(cover_id, response) ==
    LET art == get_album_art_file(cover_id, response, cache) IN
    /\ ClientStep("get_album_art_file", <<response>>, art.out)
    /\ cache' = art.cache

get_random_songs_call(response) ==
    /\ ClientStep("get_random_songs", <<response>>, get_random_songs(response))
    /\ cache' = cache

get_similar_songs_call(song_id, response) ==
    /\ ClientStep("get_similar_songs", <<response, song_id>>, get_similar_songs(song_id, response))
    /\ cache' = cache

stream_call(response) ==
    /\ ClientStep("stream", <<response>>, stream(response))
    /\ cache' = cache

\* A command whose client call checked `response` and raised APIError, up
\* to the end of its error handler.
command_error_call(response, wrapped) ==
    /\ check_subsonic_error(response).raised = "APIError"
    /\ ClientStep("command_error", <<response, wrapped>>,
                  command_error(check_subsonic_error(response), wrapped))
    /\ cache' = cache

NextClient ==
    \/ \E response \in CheckResponses, wrapped \in BOOLEAN :
          command_error_call(response, wrapped)
    \/ \E response \in RandomResponses : get_random_songs_call(response)
    \/ \E song_id \in {"None", "A"} :
          \E response \in SimilarResponses(song_id) :
             get_similar_songs_call(song_id, response)
    \/ \E response \in StreamResponses : stream_call(response)
    \/ \E response \in CheckResponses : check_call(response)
    \/ \E response \in SearchEnvelopes : search_call(response)
    \/ \E response \in UserPlaylistsResponses : get_user_playlists_call(response)
    \/ \E response \in ArtistIdResponses : get_artist_id_call(response)
    \/ \E input \in DiscographyInputs :
          get_artist_discography_call(input[1], input[2], input[3])
    \/ \E inVoice \in BOOLEAN, artOk \in BOOLEAN : disco_after_call(inVoice, artOk)
    \/ \E cover_id \in CoverIds, response \in ArtResponses :
          get_album_art_file_call(cover_id, response)

SpecClient == Init /\ [][NextClient]_vars

\* play playlist with its call of get_playlist: a member joins the voice
\* channel, the client fetches a playlist, the command goes on.
NextPlaylist ==
    \/ on_voice_state_update(1)
    \/ \E response \in GetPlaylistResponses : get_playlist_call(response)
    \/ \E artOk \in BOOLEAN : play_playlist_after_call(artOk)

SpecPlaylist == Init /\ [][NextPlaylist]_vars

\* ---------------------------------------------------------- pagination
\* The longest list paginated and the most items on a page.
MaxItems == 4

MaxPerPage == 3

\* The lists handed to ListPaginator.
ItemLists == UNION {[1..n -> {"x", "y", "z"}] : n \in 0..MaxItems}

\* math.ceil(len(items) / items_per_page)
num_pages(n, items_per_page) ==
    IF n % items_per_page = 0 THEN n \div items_per_page ELSE n \div items_per_page + 1

\* A plausible slip in the entry: the index counts from one.
PageEntry_from_one(i, items) == [input_index |-> i + 1, data |-> Head(items)]

\* The entry appended for index i: {'input_index': i, 'data': items.pop(0)}.
PageEntry(i, items) == [input_index |-> i, data |-> Head(items)]

\* The second loop of __init__ from index i on: the entry goes to page
\* math.floor(i / items_per_page) and the first item is popped off items.
RECURSIVE FillPages(_, _, _, _, _)
FillPages(pages, items, i, n, items_per_page) ==
    IF i = n THEN [pages |-> pages, items |-> items]
    ELSE FillPages([pages EXCEPT ![(i \div items_per_page) + 1] =
                        Append(@, PageEntry(i, items))],
                   Tail(items), i + 1, n, items_per_page)

\* ListPaginator.__init__: num_pages empty pages, then the loop over
\* range(len(items)). The result is self.pages and the caller's list.
ListPaginator(items, items_per_page) ==
    FillPages([page \in 1..num_pages(Len(items), items_per_page) |-> <<>>],
              items, 0, Len(items), items_per_page)

\* A paginator is built.
ListPaginator_call(items, items_per_page) ==
    /\ ClientStep("ListPaginator", <<items, items_per_page>>,
                  ListPaginator(items, items_per_page))
    /\ cache' = cache

NextPaginator ==
    \E items \in ItemLists, items_per_page \in 1..MaxPerPage :
        ListPaginator_call(items, items_per_page)

SpecPaginator == Init /\ [][NextPaginator]_vars

\* -------------------------------------------------- the shared session
\* A step of the session functions that leaves the module at `state`.
SessionStep(fn, arg, out, state) ==
    /\ sessions' = state
    /\ call' = Call(fn, arg, out)
    /\ last_op' = fn
    /\ scenario' = 0
    /\ stopped' = NoStop
    /\ UNCHANGED <<player, autoplay_mode, voice, watchdog, cache, guilds>>

\* A coroutine calls get_session and keeps what it returns.
get_session_call(caller) ==
    LET got == get_session(sessions.globalsession, sessions.created) IN
    /\ got.created <= MaxSessions
    /\ SessionStep("get_session", <<caller>>, Returned("session", <<got.session>>, <<>>),
                   [globalsession |-> got.session, created |-> got.created,
                    held |-> [sessions.held EXCEPT ![caller] = got.session]])

\* A coroutine is done with the session it got.
release(caller) ==
    /\ sessions.held[caller] # 0
    /\ SessionStep("release", <<caller>>, Returned("None", <<>>, <<>>),
                   [sessions EXCEPT !.held[caller] = 0])

close_session_call ==
    SessionStep("close_session", <<>>, Returned("None", <<>>, <<>>),
                [sessions EXCEPT !.globalsession = close_session(sessions.globalsession)])

NextSession ==
    \/ \E caller \in Callers : get_session_call(caller)
    \/ \E caller \in Callers : release(caller)
    \/ close_session_call

SpecSession == Init /\ [][NextSession]_vars

\* ------------------------------------------------ the commands by guild
\* The longest queue of a guild.
MaxGuildQueue == 2

\* What a command of a guild enqueues.
GuildBatches == {<<"A">>, <<"B", "A">>}

\* data.guild_data(id).player, data.guild_properties(id) and
\* discord.utils.get(bot.voice_clients, guild=...): the entry of guild id.
guild_data(id) == guilds[id]

\* A step of a handler that leaves the guilds as `registry`.
GuildStep(op, registry) ==
    /\ guilds' = registry
    /\ sessions' = sessions
    /\ last_op' = op
    /\ scenario' = 0
    /\ stopped' = NoStop
    /\ call' = NoCall
    /\ cache' = cache
    /\ UNCHANGED <<player, autoplay_mode, voice, watchdog>>

\* Player.play_audio_queue on the entry p of a guild whose autoplay mode is
\* NONE: nothing without a voice client or while the sink plays; otherwise
\* the head of the queue becomes the current song and is handed to the sink
\* (None does not play); with an empty queue the player is Idle.
play_audio_queue_in(p) ==
    IF ~p.voice \/ p.playing THEN p
    ELSE IF p.queue = <<>>
         THEN [p EXCEPT !.current_song = "None", !.playing = FALSE]
         ELSE [p EXCEPT !.queue = Tail(p.queue),
                        !.current_song = Head(p.queue),
                        !.playing = (Head(p.queue) # "None")]

\* play without a query, by a member in voice, in guild ctx.guild.id = id.
play_in(id) ==
    LET p == [guild_data(id) EXCEPT !.voice = TRUE] IN
    GuildStep("play",
              [guilds EXCEPT ![id] =
                  IF p.playing \/ (p.queue = <<>> /\ p.autoplay_mode = "NONE")
                  THEN p ELSE play_audio_queue_in(p)])

\* play playlist and disco in guild id once the songs have arrived: they
\* are appended to the guild's queue and play_audio_queue is called.
enqueue_in(id, songs, inVoice) ==
    LET p == guild_data(id) IN
    /\ Len(p.queue) + Len(songs) <= MaxGuildQueue
    /\ GuildStep("disco",
                 [guilds EXCEPT ![id] =
                     play_audio_queue_in([p EXCEPT !.voice = p.voice \/ inVoice,
                                                   !.queue = p.queue \o songs])])

\* stop in guild id.
stop_in(id) ==
    LET p == guild_data(id) IN
    /\ p.voice
    /\ Len(p.queue) < MaxGuildQueue
    /\ GuildStep("stop",
                 [guilds EXCEPT ![id] =
                     [p EXCEPT !.playing = FALSE, !.current_song = "None",
                               !.queue = <<"None">> \o p.queue]])

\* skip in guild id.
skip_in(id) ==
    LET p == guild_data(id) IN
    /\ p.voice
    /\ p.playing
    /\ GuildStep("skip",
                 [guilds EXCEPT ![id] =
                     play_audio_queue_in([p EXCEPT !.playing = FALSE,
                                                   !.current_song = "None"])])

\* The sink of guild id reports the end of the track.
track_end_in(id) ==
    LET p == guild_data(id) IN
    /\ p.playing
    /\ GuildStep("track_end",
                 [guilds EXCEPT ![id] =
                     play_audio_queue_in([p EXCEPT !.playing = FALSE,
                                                   !.current_song = "None"])])

\* A plausible slip in clear: the queue of every guild is cleared.
clear_queue_in_all(id) ==
    GuildStep("clear_queue",
              [other \in Guilds |-> [guilds[other] EXCEPT !.queue = <<>>]])

\* clear in guild id.
clear_queue_in(id) ==
    GuildStep("clear_queue", [guilds EXCEPT ![id].queue = <<>>])

\* shuffle in guild id.
shuffle_in(id) ==
    \E shuffledqueue \in Shuffles(guild_data(id).queue) :
        GuildStep("shuffle", [guilds EXCEPT ![id].queue = shuffledqueue])

\* autoplay <mode> in guild id: mode.value raises, nothing is assigned.
autoplay_in(id, mode) ==
    GuildStep("autoplay",
              IF HasValue(mode)
              THEN [guilds EXCEPT ![id].autoplay_mode = mode]
              ELSE guilds)

\* on_voice_state_update for a member of guild member.guild.id = id, the
\* bot alone before and after the sleep: the guild's voice client is
\* disconnected and the guild's player reset.
watchdog_reset_in(id) ==
    LET p == guild_data(id) IN
    /\ p.voice
    /\ GuildStep("watchdog_expire",
                 [guilds EXCEPT ![id] =
                     [p EXCEPT !.voice = FALSE, !.playing = FALSE,
                               !.queue = <<>>, !.current_song = "None"]])

\* A handler that runs for guild id.
HandlerFor(id) ==
    \/ play_in(id)
    \/ \E songs \in GuildBatches, inVoice \in BOOLEAN : enqueue_in(id, songs, inVoice)
    \/ stop_in(id)
    \/ skip_in(id)
    \/ track_end_in(id)
    \/ clear_queue_in(id)
    \/ shuffle_in(id)
    \/ \E mode \in AutoplayModes : autoplay_in(id, mode)
    \/ watchdog_reset_in(id)

NextGuilds == \E id \in Guilds : HandlerFor(id)

SpecGuilds == Init /\ [][NextGuilds]_vars

\* ----------------------------------------------------------------- claims
\* The number of entries of q whose field values are t.
Count(t, q) == Cardinality({i \in 1..Len(q) : q[i].track = t})

\* The queue as it is after a step that appended to it, the song that the
\* same step popped to play it put back at its head.
AfterAppend ==
    IF current_song' # current_song THEN <<current_song'>> \o queue' ELSE queue'

\* The step appended songs with the field values of batch, in that order, to
\* the tail of the queue and left the entries queued before as they were.
Appended(batch) ==
    /\ Len(AfterAppend) = Len(queue) + Len(batch)
    /\ SubSeq(AfterAppend, 1, Len(queue)) = queue
    /\ TracksOf(SubSeq(AfterAppend, Len(queue) + 1, Len(AfterAppend))) = batch

\* C1: in every reachable state there is at most one current track (None or
\* one Song object created so far), and the current Song object is not an
\* element of the queue.
C1_CurrentNotQueued ==
    /\ current_song = None \/ current_song.obj \in 1..(nextObj - 1)
    /\ current_song # None => current_song.obj \notin ObjsOf(queue)

\* C1 witness: a song plays while another entry with the same field values
\* waits in the queue, after more than one kind of operation.
C1_Witness ==
    /\ current_song # None
    /\ playing
    /\ \E i \in 1..Len(queue) : queue[i].track = current_song.track
    /\ last_op = "shuffle"

\* C2: stop while T is current and the queue is Q leaves current None, the
\* queue <<T>> \o Q and the sink silent.
C2_StopRequeuesCurrent ==
    [][(stop /\ current_song # None /\ playing) =>
          /\ current_song' = None
          /\ queue' = <<current_song>> \o queue
          /\ ~playing']_vars

\* C3: stop in a Playing state followed directly by play restores the current
\* track and the queue of before the stop.
C3_StopThenPlayRestores ==
    [][(play /\ stopped.valid) =>
          /\ current_song' = stopped.song
          /\ queue' = stopped.queue]_vars

\* C4: skip while T is current drops T: the head of the queue, if there is
\* one, is the new current track and the queue is its tail; otherwise T is
\* neither current nor queued. And in no step does a Song object that has
\* left the player (neither current nor queued) come back to it.
C4_SkipDiscards ==
    [][/\ (skip /\ current_song # None) =>
             /\ current_song' # current_song
             /\ current_song.obj \notin ObjsOf(queue')
             /\ queue # <<>> => (current_song' = Head(queue) /\ queue' = Tail(queue))
       /\ \A o \in 1..(nextObj - 1) :
             o \notin (ObjsOf(queue) \cup {current_song.obj})
                => o \notin (ObjsOf(queue') \cup {current_song'.obj})]_vars

\* C4 witness: the skip of the end-to-end trace has acted (B was skipped with
\* C waiting), C is current.
C4_Witness ==
    /\ last_op = "skip"
    /\ scenario = 4
    /\ current_song.track = "C"

\* C5: shuffle keeps the multiset of the field values of the queue's entries
\* and the length of the queue, and leaves a queue of length 0 or 1 with the
\* same field values in the same order.
C5_ShufflePreservesMultiset ==
    [][shuffle =>
          /\ Len(queue') = Len(queue)
          /\ \A t \in {queue[i].track : i \in 1..Len(queue)}
                    \cup {queue'[i].track : i \in 1..Len(queue')} :
                Count(t, queue') = Count(t, queue)
          /\ Len(queue) <= 1 => TracksOf(queue') = TracksOf(queue)]_vars

\* C5 witness: a shuffle has acted on a queue of two different songs and has
\* exchanged them (the copy of the second one, created later, comes first).
C5_Witness ==
    /\ last_op = "shuffle"
    /\ Len(queue) = 2
    /\ queue[1] # None /\ queue[2] # None
    /\ queue[1].track # queue[2].track
    /\ queue[1].obj > queue[2].obj

\* C6: after a shuffle every element of the queue is one of the Song objects
\* that were in the queue before it, and the current track is unchanged.
C6_ShuffleKeepsIdentity ==
    [][shuffle =>
          /\ \A i \in 1..Len(queue') : \E j \in 1..Len(queue) : queue'[i] = queue[j]
          /\ current_song' = current_song]_vars

\* C7: clear empties the queue and leaves the current track, the sink and the
\* autoplay mode as they were.
C7_ClearOnlyQueue ==
    [][clear_queue =>
          /\ queue' = <<>>
          /\ current_song' = current_song
          /\ playing' = playing
          /\ autoplay_mode' = autoplay_mode]_vars

\* C7 witness: clear has acted while a song was playing.
C7_Witness ==
    /\ last_op = "clear_queue"
    /\ current_song # None
    /\ playing

\* C8: enqueueing a track, a playlist or a discography appends its songs to
\* the tail of the queue in source order and leaves the entries queued before
\* untouched.
C8_EnqueueAppends ==
    [][/\ \A songs \in SearchResponses :
             (play_track(songs) /\ songs # <<>>) => Appended(<<songs[1]>>)
       /\ \A songs \in PlaylistResponses, artOk \in BOOLEAN :
             play_playlist(TRUE, songs, artOk) => Appended(songs)
       /\ \A inVoice \in BOOLEAN, albums \in DiscographyResponses, artOk \in BOOLEAN :
             disco(inVoice, TRUE, albums, artOk) => Appended(AlbumSongs(albums))]_vars

\* C9: play on an Idle player with a non-empty queue pops the head, makes it
\* the current track and moves to Playing; the rest of the queue keeps its
\* order.
C9_PlayPopsHead ==
    [][(play /\ Idle /\ queue # <<>>) =>
          /\ current_song' = Head(queue)
          /\ current_song' # None
          /\ playing'
          /\ queue' = Tail(queue)]_vars

\* C10: along the end-to-end trace with autoplay NONE (A, B, C enqueued on an
\* Idle player with an empty queue, then playback, a natural end, a skip and
\* a natural end) the current track and the queue are A / B, C, then B / C,
\* then C / empty, then None / empty with the player Idle.
C10_EndToEnd ==
    /\ scenario = 1 => (Idle /\ TracksOf(queue) = <<"A", "B", "C">>)
    /\ scenario = 2 => (playing /\ current_song.track = "A" /\ TracksOf(queue) = <<"B", "C">>)
    /\ scenario = 3 => (playing /\ current_song.track = "B" /\ TracksOf(queue) = <<"C">>)
    /\ scenario = 4 => (playing /\ current_song.track = "C" /\ queue = <<>>)
    /\ scenario = 5 => (Idle /\ queue = <<>>)

\* C10 witness: the whole trace has been run.
C10_Witness ==
    /\ scenario = 5
    /\ last_op = "track_end"
    /\ autoplay_mode = "NONE"

\* C11: when a track ends with an empty queue and the mode is RANDOM, the
\* engine calls get_random_songs (no filter parameter); the songs the server
\* answers with are appended in order as new Song objects and playback goes
\* on with the first of them; when the call returns an empty list (an empty
\* song list or code 70) the queue stays empty and the player is Idle.
C11_RandomRefill ==
    [][\A response \in RandomResponses :
          (autoplay_mode = "RANDOM" /\ queue = <<>> /\ playing /\ track_end(response)) =>
              /\ call'.fn = "get_random_songs"
              /\ (response.status = "ok" /\ response.has /\ response.items # <<>>) =>
                    /\ TracksOf(<<current_song'>> \o queue') = response.items
                    /\ ObjsOf(<<current_song'>> \o queue') = nextObj..(nextObj' - 1)
                    /\ playing'
              /\ (call'.out.kind = "list" /\ call'.out.list = <<>>) =>
                    /\ queue' = <<>>
                    /\ Idle'
                    /\ call'.out.raised = "no"
              /\ response = Failed(NotFound) => call'.out.list = <<>>]_vars

\* C11 witness: a track has ended with an empty queue in mode RANDOM, the
\* server answered with C and A; C plays and A waits.
C11_Witness ==
    /\ last_op = "track_end"
    /\ autoplay_mode = "RANDOM"
    /\ call.fn = "get_random_songs"
    /\ call.out.list = <<"C", "A">>
    /\ playing
    /\ current_song.track = "C"
    /\ TracksOf(queue) = <<"A">>

\* C12: with mode NONE, a step on an empty queue that is not an enqueue
\* command puts no Song into the queue, makes no Song current, creates no
\* Song and calls no source; a track that ends with an empty queue leaves
\* the queue empty and the player Idle.
C12_NoneNeverRefills ==
    [][/\ (/\ autoplay_mode = "NONE"
           /\ queue = <<>>
           /\ last_op' \notin {"play_track", "play_album", "play_playlist", "disco"}) =>
             /\ ObjsOf(queue') = {}
             /\ current_song' \in {current_song, None}
             /\ nextObj' = nextObj
             /\ call'.fn = "none"
       /\ \A response \in AutoplayResponses("NONE", current_song) :
             (autoplay_mode = "NONE" /\ queue = <<>> /\ playing /\ track_end(response)) =>
                 (queue' = <<>> /\ Idle')]_vars

\* C12 witness: with mode NONE the last song has ended, the queue is empty
\* and the player Idle.
C12_Witness ==
    /\ last_op = "track_end"
    /\ autoplay_mode = "NONE"
    /\ nextObj > 1
    /\ queue = <<>>
    /\ Idle

\* C13: in mode SIMILAR no step calls get_random_songs; playback started with
\* no track played before, and a track that ends with an empty queue when
\* the server has nothing similar (similarSongs {} or code 70), get an empty
\* batch from get_similar_songs: the queue stays empty and the player is
\* Idle.
C13_SimilarFallsBackToEmpty ==
    [][autoplay_mode = "SIMILAR" =>
          /\ call'.fn # "get_random_songs"
          /\ (~playing /\ queue = <<>> /\ current_song = None /\ play) =>
                /\ call'.fn = "get_similar_songs"
                /\ call'.out.list = <<>>
                /\ queue' = <<>>
                /\ Idle'
          /\ \A response \in {OkEmpty, Failed(NotFound)} :
                (queue = <<>> /\ playing /\ track_end(response)) =>
                    /\ call'.fn = "get_similar_songs"
                    /\ call'.out.list = <<>>
                    /\ queue' = <<>>
                    /\ Idle']_vars

\* C13 witness: in mode SIMILAR playback was started with an empty queue and
\* no track played before; the engine asked get_similar_songs and the player
\* is Idle.
C13_Witness ==
    /\ last_op = "play"
    /\ autoplay_mode = "SIMILAR"
    /\ call.fn = "get_similar_songs"
    /\ nextObj = 1
    /\ queue = <<>>
    /\ Idle

\* The server answered the request with the data asked for.
Answered(response) ==
    response.http < 400 /\ response.status = "ok" /\ response.has

\* C14: check_subsonic_error on an envelope whose status is not ok raises
\* APIError with the envelope's code for the codes 0, 10, 20, 30, 40, 41, 50
\* and 60, raises APIError with the message "Unknown Error Code." for a code
\* that is none of these nor 70, and for code 70 raises nothing and returns
\* True; on an ok envelope it raises nothing and returns False.
C14_ErrorTaxonomy ==
    call.fn = "check_subsonic_error" =>
        LET response == call.arg[1]
            out == call.out
        IN  /\ (response.status # "ok" /\ response.code \in {0, 10, 20, 30, 40, 41, 50, 60}) =>
                  (out.raised = "APIError" /\ out.code = response.code)
            /\ (response.status # "ok"
                  /\ response.code \notin {0, 10, 20, 30, 40, 41, 50, 60, 70}) =>
                  (out.raised = "APIError" /\ out.message = "Unknown Error Code.")
            /\ (response.status # "ok" /\ response.code = 70) =>
                  (out.raised = "no" /\ out.kind = "True")
            /\ response.status = "ok" => (out.raised = "no" /\ out.kind = "False")

\* C14 witness: the check has raised for a code the API does not define.
C14_Witness ==
    /\ call.fn = "check_subsonic_error"
    /\ call.arg[1].code = 71
    /\ call.out.raised = "APIError"
    /\ call.out.message = "Unknown Error Code."

\* C15: whenever check_subsonic_error has handled an error envelope (raised
\* or returned True), it has written a log entry with the envelope's code and
\* the message of that code.
C15_LoggedBeforeRaise ==
    (call.fn = "check_subsonic_error" /\ call.arg[1].status # "ok") =>
        \E i \in 1..Len(call.out.log) :
            /\ call.out.log[i].code = call.arg[1].code
            /\ call.out.log[i].message = err_msg(call.arg[1].code)

\* C16: search raises APIError with the envelope's code when the envelope's
\* status is not ok and its code is not 70, and returns a result without
\* songs, raising nothing, when the code is 70.
C16_SearchRaises ==
    (call.fn = "search" /\ call.arg[1].status = "failed") =>
        IF call.arg[1].code = 70
        THEN call.out.raised = "no" /\ call.out.list = <<>>
        ELSE call.out.raised = "APIError" /\ call.out.code = call.arg[1].code

\* C17 as stated: get_user_playlists returns an empty list, raising nothing,
\* both for an ok response without a playlist entry and for code 70.
C17_PlaylistsNeverNull ==
    (call.fn = "get_user_playlists" /\ call.arg[1] \in {OkEmpty, Failed(70)}) =>
        /\ call.out.raised = "no"
        /\ call.out.kind = "list"
        /\ call.out.list = <<>>

\* C17: get_user_playlists returns an empty list, raising nothing, for an ok
\* response without a playlist entry; for code 70 it raises nothing and
\* returns None.
C17_PlaylistsEmptyOrNone ==
    call.fn = "get_user_playlists" =>
        /\ call.arg[1] = OkEmpty =>
              (call.out.raised = "no" /\ call.out.kind = "list" /\ call.out.list = <<>>)
        /\ call.arg[1] = Failed(70) =>
              (call.out.raised = "no" /\ call.out.kind = "None")

\* C17 witness: get_user_playlists has returned None for code 70.
C17_Witness ==
    /\ call.fn = "get_user_playlists"
    /\ call.arg[1] = Failed(70)
    /\ call.out.kind = "None"
    /\ call.out.log # <<>>

\* C18: get_artist_id returns the id of the first artist of the search when
\* there is one; when there is none (code 70, or an ok response without
\* artist entries) it raises nothing and returns None.
C18_ArtistIdOrNone ==
    (call.fn = "get_artist_id" /\ call.arg[1].http = 200) =>
        LET response == call.arg[1]
            out == call.out
        IN  /\ (Answered(response) /\ response.items # <<>>) =>
                  (out.kind = "id" /\ out.list = <<response.items[1]>>)
            /\ (\/ response.status = "failed" /\ response.code = 70
                \/ response.status = "ok" /\ (~response.has \/ response.items = <<>>)) =>
                  (out.raised = "no" /\ out.kind = "None")

\* C19: when the artist is found and lists its albums, get_artist_discography
\* gives no list at all if one of the getAlbum requests fails, and otherwise
\* a list with one album per album listed, in that order, each with its
\* songs; and disco appends nothing to the queue when the call gave no list.
C19_DiscographyFailFast ==
    [][/\ call'.fn = "get_artist_discography" =>
             LET idResponse == call'.arg[1]
                 artistResponse == call'.arg[2]
                 albumResponses == call'.arg[3]
                 out == call'.out
                 listed == 1..Len(artistResponse.items)
             IN  (Answered(idResponse) /\ idResponse.items # <<>> /\ Answered(artistResponse)) =>
                    /\ (\E i \in listed : ~Answered(albumResponses[i])) =>
                          (out.kind # "list" /\ out.list = <<>>)
                    /\ (\A i \in listed : Answered(albumResponses[i])) =>
                          /\ out.kind = "list"
                          /\ Len(out.list) = Len(artistResponse.items)
                          /\ \A i \in listed : out.list[i] = albumResponses[i].items
       /\ \A inVoice \in BOOLEAN, artOk \in BOOLEAN :
             (disco_after_call(inVoice, artOk) /\ call.out.kind # "list") =>
                 (queue' = queue /\ current_song' = current_song /\ nextObj' = nextObj)]_vars

\* C19 witness: of two albums listed the first was fetched and the second
\* was not found; the call made its four requests and returned None.
C19_Witness ==
    /\ call.fn = "get_artist_discography"
    /\ Len(call.arg[2].items) = 2
    /\ Answered(call.arg[3][1])
    /\ ~Answered(call.arg[3][2])
    /\ call.out.kind = "None"
    /\ call.out.requests = 4

\* C20: get_album_art_file for a cover id that has a file in the cache sends
\* no request, returns the path of that file and leaves the cache as it is,
\* whichever calls came before it.
C20_CacheHit ==
    [][call'.fn = "get_album_art_file" =>
          \A cover_id \in cache, response \in ArtResponses :
              get_album_art_file_call(cover_id, response) =>
                  /\ call'.out.requests = 0
                  /\ call'.out.raised = "no"
                  /\ call'.out.list = <<CachePath(cover_id)>>
                  /\ cache' = cache]_vars

\* C20 witness: with both covers cached, a call for one of them has returned
\* its path without a request.
C20_Witness ==
    /\ last_op = "get_album_art_file"
    /\ cache = CoverIds
    /\ call.out.kind = "path"
    /\ call.out.list[1].name \in cache
    /\ call.out.requests = 0

\* C21: get_album_art_file raises nothing; when the cover is not cached and
\* the request fails (a status other than 200, or an error envelope with any
\* code) it returns the path of the bundled image and the cache is left
\* without that cover.
C21_CoverArtNeverRaises ==
    [][call'.fn = "get_album_art_file" =>
          /\ call'.out.raised = "no"
          /\ \A cover_id \in CoverIds \ cache, response \in ArtResponses \ {Image} :
                get_album_art_file_call(cover_id, response) =>
                    /\ call'.out.list = <<FallbackPath>>
                    /\ cache' = cache]_vars

\* C22: get_random_songs and get_similar_songs raise nothing and return an
\* empty list for every answer that is an error (an error envelope with any
\* code, an HTTP error) or holds no songs.
C22_AutoplayFetchNeverRaises ==
    call.fn \in {"get_random_songs", "get_similar_songs"} =>
        /\ call.out.raised = "no"
        /\ call.out.kind = "list"
        /\ (~Answered(call.arg[1]) \/ call.arg[1].items = <<>>) => call.out.list = <<>>

C24_WatchdogFires ==
    [][(waiting > 0 /\ users = 0 /\ watchdog_expire) =>
          /\ ~voice'
          /\ queue' = <<>>
          /\ current_song' = None
          /\ ~playing']_vars

\* C24 witness: the watchdog has fired after songs were enqueued; the bot is
\* disconnected and the player reset.
C24_Witness ==
    /\ last_op = "watchdog_expire"
    /\ users = 0
    /\ ~voice
    /\ nextObj > 1
    /\ queue = <<>>
    /\ Idle

\* C25: a handler that wakes while another member is in the channel changes
\* nothing: the queue, the current track, the sink and the voice connection
\* are as they were.
C25_WatchdogAborts ==
    [][(users >= 1 /\ (watchdog_expire \/ \E hasChannel \in BOOLEAN :
                                               watchdog_expire_stale(hasChannel))) =>
          UNCHANGED <<queue, current_song, playing, voice>>]_vars

C27_JoinCancelsWait ==
    [][(scenario = 8 /\ watchdog_expire) => voice' = voice]_vars

\* C30: the autoplay mode is changed by the autoplay command only, which
\* leaves it at exactly the mode it was asked for; every other step leaves
\* the mode as it was.
C30_ModeOnlyByCommand ==
    [][IF last_op' = "autoplay"
       THEN \A mode \in AutoplayModes : autoplay(mode) => autoplay_mode' = mode
       ELSE autoplay_mode' = autoplay_mode]_vars

\* C29: a handler that runs for one guild leaves the queue, the current
\* song and the autoplay mode of every other guild as they were.
C29_GuildIsolation ==
    [][\A id \in Guilds :
          HandlerFor(id) =>
              \A other \in Guilds \ {id} :
                  /\ guilds'[other].queue = guilds[other].queue
                  /\ guilds'[other].current_song = guilds[other].current_song
                  /\ guilds'[other].autoplay_mode = guilds[other].autoplay_mode]_vars

\* C29 witness: the queue of one guild has been cleared while another guild
\* plays a song with songs waiting in its queue.
C29_Witness ==
    /\ last_op = "clear_queue"
    /\ \E id \in Guilds, other \in Guilds :
          /\ id # other
          /\ guilds[id].queue = <<>>
          /\ guilds[id].current_song # "None"
          /\ guilds[other].queue # <<>>
          /\ guilds[other].current_song # "None"

\* C31: the error handler of a command that raised APIError logs the
\* error with its numeric code and its message, shows the API error message
\* and does not raise.
C31_HandlerLogsCode ==
    call.fn = "command_error" =>
        /\ call.out.raised = "no"
        /\ call.out.kind = "API error message"
        /\ call.out.log = <<Warning(call.arg[1].code)>>

\* C32: get_playlist, answered with an ok envelope from which no Playlist
\* can be built, does not raise: it logs the failure and returns None; the
\* play command that made the call then leaves the queue and the current
\* song as they were.
C32_PlaylistParseFailure ==
    [][/\ (/\ call'.fn = "get_playlist"
           /\ call'.arg[1].http = 200
           /\ call'.arg[1].status = "ok"
           /\ ~call'.arg[1].has) =>
              /\ call'.out.raised = "no"
              /\ call'.out.kind = "None"
              /\ call'.out.log = <<ParseError>>
       /\ (/\ call.fn = "get_playlist"
           /\ call.out.kind = "None"
           /\ \E artOk \in BOOLEAN : play_playlist_after_call(artOk)) =>
              UNCHANGED <<queue, current_song>>]_vars

\* C32 witness: with a member in voice, who can give the play command, and
\* songs waiting in the queue, get_playlist has returned
\* None for an ok envelope without a playlist and logged the failure.
C32_Witness ==
    /\ users >= 1
    /\ queue # <<>>
    /\ call.fn = "get_playlist"
    /\ call.arg[1] = OkEmpty
    /\ call.out.kind = "None"
    /\ call.out.log = <<ParseError>>

\* C33: in every reachable state every element of the queue is a Song;
\* None is never an element of the queue.
C33_NoNoneInQueue ==
    \A i \in 1..Len(queue) : queue[i] # None

\* C34: a skip command issued without a voice client, or while the sink is
\* silent, leaves the queue and the current song as they were.
C34_SkipRejected ==
    [][((~voice \/ ~playing) /\ skip) =>
          UNCHANGED <<queue, current_song, playing>>]_vars

\* C34 witness: skip has been rejected with a song waiting in the queue.
C34_Witness ==
    /\ last_op = "skip"
    /\ ~playing
    /\ queue # <<>>
    /\ call = NoCall

\* C35: once a queue that plays with autoplay NONE is left to itself, with
\* every track ending, the player is eventually Idle with an empty queue.
C35_QueueDrains ==
    (scenario = 9) ~> (Idle /\ queue = <<>>)

\* C36: get_session creates a session only when there is none, and then
\* exactly one, a new one; it returns the session that is the handle after
\* the call, so all calls between two teardowns return the same session;
\* close_session clears the handle.
C36_OneSession ==
    [][/\ call'.fn = "get_session" =>
             /\ sessions'.globalsession = call'.out.list[1]
             /\ IF sessions.globalsession # 0
                THEN /\ call'.out.list[1] = sessions.globalsession
                     /\ sessions'.created = sessions.created
                ELSE /\ call'.out.list[1] = sessions.created + 1
                     /\ sessions'.created = sessions.created + 1
             /\ \A caller \in Callers :
                   sessions'.held[caller] \in {0, sessions'.globalsession}
                      \/ sessions'.held[caller] = sessions.held[caller]
       /\ call'.fn = "close_session" =>
             /\ sessions'.globalsession = 0
             /\ sessions'.created = sessions.created]_vars

\* C36 witness: after a teardown a second session has been created, and two
\* coroutines that asked for the session since then hold that same one.
C36_Witness ==
    /\ call.fn = "get_session"
    /\ sessions.created = 2
    /\ sessions.globalsession = 2
    /\ \E caller \in Callers, other \in Callers :
          /\ caller # other
          /\ sessions.held[caller] = 2
          /\ sessions.held[other] = 2

\* All entries of the pages, page after page.
RECURSIVE Concat(_)
Concat(pages) == IF pages = <<>> THEN <<>> ELSE Head(pages) \o Concat(Tail(pages))

\* C37: ListPaginator(items, k) builds the least number of pages that hold
\* n items at k a page; the pages one after another are the items in their
\* order, the entry of the item at index i carries input_index i and lies
\* on page i div k; every page but the last has k entries and no page is
\* empty; the caller's list is empty afterwards.
C37_Paginator ==
    call.fn = "ListPaginator" =>
        LET items == call.arg[1]
            k == call.arg[2]
            n == Len(items)
            pages == call.out.pages
            all == Concat(pages)
        IN  /\ Len(pages) * k >= n
            /\ (Len(pages) - 1) * k < n \/ Len(pages) = 0
            /\ Len(all) = n
            /\ \A j \in 1..n : all[j] = [input_index |-> j - 1, data |-> items[j]]
            /\ \A page \in 1..Len(pages) :
                  /\ pages[page] # <<>>
                  /\ page < Len(pages) => Len(pages[page]) = k
                  /\ \A e \in 1..Len(pages[page]) :
                        pages[page][e].input_index \div k = page - 1
            /\ call.out.items = <<>>

\* C37 witness: a list of four items at three a page: a full page and a
\* last page with one entry.
C37_Witness ==
    /\ call.fn = "ListPaginator"
    /\ Len(call.arg[1]) = 4
    /\ call.arg[2] = 3
    /\ Len(call.out.pages) = 2
    /\ Len(call.out.pages[1]) = 3
    /\ Len(call.out.pages[2]) = 1
    /\ call.out.pages[2][1].input_index = 3

====
